---- MODULE Spec2Model ----
(***************************************************************************)
(* Model of src/src/protocol.rs: the gossip wire protocol's pure           *)
(* operations.                                                             *)
(*                                                                         *)
(*   CrdsFilter::default, with its helpers compute_mask and mask_bits      *)
(*   CrdsValue::new_signed                                                 *)
(*   Pong::new                                                             *)
(*                                                                         *)
(* The code is stateless: every operation is a function of its arguments.  *)
(* The state of the model is therefore the arguments a caller holds and    *)
(* the value (or panic) the call returned.  Each specification draws the   *)
(* arguments in its initial states and its actions perform the calls.      *)
(*                                                                         *)
(* Number representations (TLC integers are 32-bit signed):                *)
(*   u64  a set of bit positions, a subset of 0..63 (bit i set <=> i \in x)*)
(*   u32  two 16-bit limbs [hi, lo]                                        *)
(*   f64  a tagged record: the exact ratio of two integers, its base-2     *)
(*        logarithm as (floor, exact?), an integer, +inf, -inf or NaN      *)
(***************************************************************************)
EXTENDS Integers, Sequences, FiniteSets, TLC

VARIABLES
  overflow_checks,  \* build profile: TRUE = overflow-checks on (debug)
  arg_mask_bits,    \* compute_mask: the mask_bits argument (u32)
  seed_a, seed_b,   \* compute_mask: the seed argument of two calls (u64)
  mask_a, mask_b,   \* compute_mask: what the two calls returned
  num_items_a, num_items_b, \* mask_bits: num_items of two calls
  arg_max_items,    \* mask_bits: max_items of both calls
  bits_a, bits_b,   \* mask_bits: what the two calls returned
  bloom_keys,       \* default: the keys Bloom::random draws
  crds_filter,      \* default: what the call returned
  keypair,          \* new_signed / Pong::new: the signing keypair
  crds_data,        \* new_signed: the data argument
  crds_value,       \* new_signed: what the call returned
  ping_a, ping_b,   \* Pong::new: the ping argument of two calls
  pong_a, pong_b    \* Pong::new: what the two calls returned

vars == << overflow_checks, arg_mask_bits, seed_a, seed_b, mask_a, mask_b,
           num_items_a, num_items_b, arg_max_items, bits_a, bits_b,
           bloom_keys, crds_filter, keypair, crds_data, crds_value,
           ping_a, ping_b, pong_a, pong_b >>

mask_vars == << arg_mask_bits, seed_a, seed_b, mask_a, mask_b >>
bits_vars == << num_items_a, num_items_b, arg_max_items, bits_a, bits_b >>
default_vars == << bloom_keys, crds_filter >>
signed_vars == << crds_data, crds_value >>
pong_vars == << ping_a, ping_b, pong_a, pong_b >>

-----------------------------------------------------------------------------
(* Bounds of the model                                                     *)

\* mask_bits arguments tried: 0 .. MaxMaskBits (beyond 64 on purpose)
MaxMaskBits == 66
\* small seeds tried: 0 .. MaxSeed (besides the seeds around 2^mask_bits)
MaxSeed == 5
\* small num_items tried: 0 .. MaxItems (besides those around 1287 * 2^k)
MaxItems == 24
\* small max_items tried: 0 .. MaxCapacity (besides 1287)
MaxCapacity == 5
\* largest exponent the integer reference of mask_bits searches
MaxShardBits == 16
\* the membership filter holds 1 .. MaxBloomKeys keys
MaxBloomKeys == 3
\* each key is drawn from 0 .. MaxBloomKey
MaxBloomKey == 4
\* keypairs 1 .. MaxKeypairs
MaxKeypairs == 3
\* wallclocks tried: 0 .. MaxWallclock (besides a present-day one)
MaxWallclock == 1
\* the byte of a ping token that varies takes the values 0 .. MaxTokenByte
MaxTokenByte == 2

-----------------------------------------------------------------------------
(* Results of calls                                                        *)

Unused == [tag |-> "unused"]
Pending == [tag |-> "pending"]
Panic == [tag |-> "panic"]
Ok(v) == [tag |-> "ok", val |-> v]
Err == [tag |-> "err"]
None == [tag |-> "none"]
Some(v) == [tag |-> "some", val |-> v]

unwrap_or(opt, dflt) == IF opt.tag = "some" THEN opt.val ELSE dflt

\* the call has returned or panicked
Returned(r) == r.tag \in {"ok", "err", "panic"}

-----------------------------------------------------------------------------
(* u32: two 16-bit limbs                                                   *)

Limb == 256 * 256

\* the u32 of a natural number below 2^31
U32(n) == [hi |-> n \div Limb, lo |-> n % Limb]

U32_MAX == [hi |-> Limb - 1, lo |-> Limb - 1]

U32Lt(x, y) == x.hi < y.hi \/ (x.hi = y.hi /\ x.lo < y.lo)

\* x - y modulo 2^32
U32WrappingSub(x, y) ==
  LET borrow == IF x.lo < y.lo THEN 1 ELSE 0
  IN  [hi |-> (x.hi - y.hi - borrow) % Limb, lo |-> (x.lo - y.lo) % Limb]

\* `x - y` on u32: panics on underflow with overflow checks, wraps without
U32Sub(oc, x, y) ==
  IF U32Lt(x, y) /\ oc THEN Panic ELSE Ok(U32WrappingSub(x, y))

-----------------------------------------------------------------------------
(* u64: the set of the positions of its one-bits                           *)

U64_BITS == 64

BitPos == 0 .. (U64_BITS - 1)

U64_ZERO == {}

\* !0u64
U64_ONES == BitPos

\* the u64 of a natural number below 2^31
RECURSIVE NatBits(_, _)
NatBits(n, i) ==
  IF n = 0 THEN {}
  ELSE (IF n % 2 = 1 THEN {i} ELSE {}) \cup NatBits(n \div 2, i + 1)

U64(n) == NatBits(n, 0)

Max(S) == CHOOSE x \in S : \A y \in S : y <= x

\* x <= y on u64: equal, or the highest bit they differ in is y's
U64Le(x, y) ==
  LET diff == (x \ y) \cup (y \ x)
  IN  diff = {} \/ Max(diff) \in y

U64Or(x, y) == x \cup y

\* the shift amount is in range: rhs < u64::BITS
ShiftInRange(rhs) == rhs.hi = 0 /\ rhs.lo < U64_BITS

\* u64::checked_shl(rhs): None when rhs >= 64, else the bits moved up and
\* the bits moved past bit 63 dropped
checked_shl(x, rhs) ==
  IF ShiftInRange(rhs)
  THEN Some({i + rhs.lo : i \in x} \cap BitPos)
  ELSE None

\* u64::checked_shr(rhs): None when rhs >= 64
checked_shr(x, rhs) ==
  IF ShiftInRange(rhs)
  THEN Some({i - rhs.lo : i \in x} \cap BitPos)
  ELSE None

\* 2u64.pow(exp): 2^exp when it fits; 2^exp for exp >= 64 overflows, which
\* panics with overflow checks and wraps to 0 without
pow2_u64(oc, exp) ==
  IF ShiftInRange(exp) THEN Ok({exp.lo})
  ELSE IF oc THEN Panic ELSE Ok(U64_ZERO)

-----------------------------------------------------------------------------
(* CrdsFilter::default::compute_mask                                       *)

compute_mask(oc, seed, mask_bits) ==
  LET bound == pow2_u64(oc, mask_bits)
  IN  IF bound.tag = "panic" THEN Panic
      ELSE IF ~ U64Le(seed, bound.val) THEN Panic   \* assert!
      ELSE LET amount == U32Sub(oc, U32(U64_BITS), mask_bits)
           IN  IF amount.tag = "panic" THEN Panic
               ELSE LET shifted == unwrap_or(checked_shl(seed, amount.val), U64_ZERO)
                    IN  Ok(U64Or(shifted,
                                 unwrap_or(checked_shr(U64_ONES, mask_bits), U64_ONES)))

-----------------------------------------------------------------------------
(* The compute_mask calls                                                  *)

MaskBitsArgs == {U32(m) : m \in 0 .. MaxMaskBits}

\* seeds tried for a mask_bits of m: the small ones, and those around 2^m
SeedArgs(m) ==
  {U64(n) : n \in 0 .. MaxSeed}
    \cup {s \in {0 .. (m - 1), {m}, {m, 0}, {m + 1}, U64_ONES} : s \subseteq BitPos}

InitMask ==
  /\ overflow_checks \in BOOLEAN
  /\ arg_mask_bits \in MaskBitsArgs
  /\ seed_a \in SeedArgs(arg_mask_bits.lo)
  /\ seed_b \in SeedArgs(arg_mask_bits.lo)
  /\ mask_a = Pending /\ mask_b = Pending
  /\ num_items_a = Unused /\ num_items_b = Unused /\ arg_max_items = Unused
  /\ bits_a = Unused /\ bits_b = Unused
  /\ bloom_keys = Unused /\ crds_filter = Unused
  /\ keypair = Unused /\ crds_data = Unused /\ crds_value = Unused
  /\ ping_a = Unused /\ ping_b = Unused /\ pong_a = Unused /\ pong_b = Unused

CallComputeMaskA ==
  /\ mask_a = Pending
  /\ mask_a' = compute_mask(overflow_checks, seed_a, arg_mask_bits)
  /\ UNCHANGED << overflow_checks, arg_mask_bits, seed_a, seed_b, mask_b,
                  bits_vars, default_vars, keypair, signed_vars, pong_vars >>

CallComputeMaskB ==
  /\ mask_b = Pending
  /\ mask_b' = compute_mask(overflow_checks, seed_b, arg_mask_bits)
  /\ UNCHANGED << overflow_checks, arg_mask_bits, seed_a, seed_b, mask_a,
                  bits_vars, default_vars, keypair, signed_vars, pong_vars >>

NextMask == CallComputeMaskA \/ CallComputeMaskB

SpecMask == InitMask /\ [][NextMask]_vars

-----------------------------------------------------------------------------
(* What the claims about compute_mask speak of, in exact arithmetic        *)

\* the mask_bits argument as a number (every argument tried is below 2^16)
M == arg_mask_bits.lo

\* seed < 2^m
BelowPow2(seed, m) == \A i \in seed : i < m

\* seed > 2^m, for m < 64
AbovePow2(seed, m) == seed # {m} /\ \E i \in seed : i >= m

\* the top m bits of v, as a number
TopBits(v, m) == {i - (U64_BITS - m) : i \in {j \in v : j >= U64_BITS - m}}

\* (seed shifted left by 64 - m) OR (a suffix of exactly 64 - m one-bits)
ReferenceMask(seed, m) ==
  {i + (U64_BITS - m) : i \in {j \in seed : j < m}} \cup (0 .. (U64_BITS - 1 - m))

\* v lies in the range a mask denotes: its top m bits are the mask's
InRange(v, mask, m) == TopBits(v, m) = TopBits(mask, m)

\* 64-bit values probed for coverage: every tried top part with low parts
\* all zero, all one and one
ProbeValues(m) ==
  {ReferenceMask(t, m) \ low :
     t \in {s \in SeedArgs(m) : BelowPow2(s, m)},
     low \in {{}, 0 .. (U64_BITS - 1 - m), 1 .. (U64_BITS - 1 - m)}}

\* C1: for a fixed mask_bits = m in 0..64, the masks of the seeds below 2^m
\* are pairwise distinct, and every 64-bit value lies in the range of exactly
\* one of them: the one of the seed that equals the value's top m bits.
C1_PartitionCoverage ==
  (/\ Returned(mask_a) /\ Returned(mask_b)
   /\ M <= U64_BITS
   /\ BelowPow2(seed_a, M) /\ BelowPow2(seed_b, M))
  => /\ mask_a.tag = "ok" /\ mask_b.tag = "ok"
     /\ seed_a # seed_b => mask_a.val # mask_b.val
     /\ \A v \in ProbeValues(M) :
          /\ InRange(v, mask_a.val, M) <=> TopBits(v, M) = seed_a
          /\ seed_a # seed_b
               => ~ (InRange(v, mask_a.val, M) /\ InRange(v, mask_b.val, M))

\* C2: for every mask_bits m in 0..64 and every seed < 2^m, compute_mask
\* returns (seed << (64 - m)) | (64 - m one-bits); for m = 64 the seed itself.
C2_MaskIsReference ==
  (Returned(mask_a) /\ M <= U64_BITS /\ BelowPow2(seed_a, M))
  => mask_a = Ok(ReferenceMask(seed_a, M))

\* C7: compute_mask aborts whenever seed > 2^mask_bits (the power as the
\* code's u64 arithmetic yields it: 0 once it wraps) or mask_bits > 64.
C7_InvalidParametersAbort ==
  (/\ Returned(mask_a)
   /\ \/ M > U64_BITS
      \/ M < U64_BITS /\ AbovePow2(seed_a, M)
      \/ M >= U64_BITS /\ seed_a # U64_ZERO)
  => mask_a = Panic

\* C10: for 1 <= m <= 64, whenever compute_mask returns a value its top m
\* bits are the seed, so two different accepted seeds never share a mask.
C10_NoSilentTruncation ==
  /\ (mask_a.tag = "ok" /\ M >= 1 /\ M <= U64_BITS)
       => TopBits(mask_a.val, M) = seed_a
  /\ (mask_a.tag = "ok" /\ mask_b.tag = "ok" /\ M >= 1 /\ M <= U64_BITS
        /\ seed_a # seed_b)
       => mask_a.val # mask_b.val

-----------------------------------------------------------------------------
(* f64, as far as mask_bits uses it.  Its arguments are integers below     *)
(* 2^31 held exactly; their quotient is kept as the exact ratio, and the   *)
(* base-2 logarithm as its integer part and whether it is an integer.      *)
(* Below 2^31 a quotient differs from every power of two 2^k it is not     *)
(* equal to by more than a rounding error of the division and of log2, so  *)
(* rounding never moves the logarithm onto or across an integer and        *)
(* ceil() of the rounded value is ceil() of the exact one.                 *)

NaN == [tag |-> "nan"]
PosInf == [tag |-> "inf"]
NegInf == [tag |-> "-inf"]
F64Int(v) == [tag |-> "int", val |-> v]

\* x / y for integers x, y >= 0: n/0 is +inf, 0/0 is NaN
f64_div(x, y) ==
  IF y.val = 0
  THEN (IF x.val = 0 THEN NaN ELSE PosInf)
  ELSE [tag |-> "ratio", num |-> x.val, den |-> y.val]

\* log2(n/d) for n, d >= 1: its floor, and whether it is an integer
RECURSIVE Log2Parts(_, _)
Log2Parts(n, d) ==
  IF n >= d
  THEN IF n >= 2 * d
       THEN LET r == Log2Parts(n, 2 * d)
            IN  [floor |-> r.floor + 1, exact |-> r.exact]
       ELSE [floor |-> 0, exact |-> n = d]
  ELSE LET r == Log2Parts(2 * n, d)
       IN  [floor |-> r.floor - 1, exact |-> r.exact]

\* f64::log2: log2(0) is -inf, log2(+inf) is +inf, log2(NaN) is NaN
f64_log2(x) ==
  IF x.tag = "ratio"
  THEN (IF x.num = 0 THEN NegInf
        ELSE LET r == Log2Parts(x.num, x.den)
             IN  [tag |-> "log2", floor |-> r.floor, exact |-> r.exact])
  ELSE x

\* f64::floor, the rounding mask_bits must not be using
f64_floor(x) ==
  IF x.tag = "log2" THEN F64Int(x.floor) ELSE x

\* f64::ceil: infinities and NaN pass through
f64_ceil(x) ==
  IF x.tag = "log2"
  THEN F64Int(IF x.exact THEN x.floor ELSE x.floor + 1)
  ELSE x

\* f64::max: the other operand when one is NaN
f64_max(x, y) ==
  IF x.tag = "nan" THEN y
  ELSE IF y.tag = "nan" THEN x
  ELSE IF x.tag = "inf" \/ y.tag = "inf" THEN PosInf
  ELSE IF x.tag = "-inf" THEN y
  ELSE IF y.tag = "-inf" THEN x
  ELSE F64Int(IF x.val >= y.val THEN x.val ELSE y.val)

\* `x as u32`: saturating, NaN is 0
f64_as_u32(x) ==
  IF x.tag = "nan" \/ x.tag = "-inf" THEN U32(0)
  ELSE IF x.tag = "inf" THEN U32_MAX
  ELSE IF x.val < 0 THEN U32(0)
  ELSE U32(x.val)

-----------------------------------------------------------------------------
(* CrdsFilter::default::mask_bits                                          *)

\* mask_bits with the quotient taken the other way round, max_items / num_items
mask_bits_swapped(num_items, max_items) ==
  f64_as_u32(f64_max(f64_ceil(f64_log2(f64_div(max_items, num_items))), F64Int(0)))

mask_bits(num_items, max_items) ==
  f64_as_u32(f64_max(f64_ceil(f64_log2(f64_div(num_items, max_items))), F64Int(0)))

-----------------------------------------------------------------------------
(* The mask_bits calls                                                     *)

NumItemsArgs ==
  (0 .. MaxItems) \cup {512, 1286, 1287, 1288, 2574, 2575, 3000, 5148, 5149}

MaxItemsArgs == (0 .. MaxCapacity) \cup {1287}

InitMaskBits ==
  /\ num_items_a \in NumItemsArgs
  /\ num_items_b \in NumItemsArgs
  /\ arg_max_items \in MaxItemsArgs
  /\ bits_a = Pending /\ bits_b = Pending
  /\ overflow_checks = Unused
  /\ arg_mask_bits = Unused /\ seed_a = Unused /\ seed_b = Unused
  /\ mask_a = Unused /\ mask_b = Unused
  /\ bloom_keys = Unused /\ crds_filter = Unused
  /\ keypair = Unused /\ crds_data = Unused /\ crds_value = Unused
  /\ ping_a = Unused /\ ping_b = Unused /\ pong_a = Unused /\ pong_b = Unused

CallMaskBitsA ==
  /\ bits_a = Pending
  /\ bits_a' = Ok(mask_bits(F64Int(num_items_a), F64Int(arg_max_items)))
  /\ UNCHANGED << overflow_checks, mask_vars, num_items_a, num_items_b,
                  arg_max_items, bits_b, default_vars, keypair, signed_vars,
                  pong_vars >>

CallMaskBitsB ==
  /\ bits_b = Pending
  /\ bits_b' = Ok(mask_bits(F64Int(num_items_b), F64Int(arg_max_items)))
  /\ UNCHANGED << overflow_checks, mask_vars, num_items_a, num_items_b,
                  arg_max_items, bits_a, default_vars, keypair, signed_vars,
                  pong_vars >>

NextMaskBits == CallMaskBitsA \/ CallMaskBitsB

SpecMaskBits == InitMaskBits /\ [][NextMaskBits]_vars

\* 2^k
RECURSIVE Pow2(_)
Pow2(k) == IF k = 0 THEN 1 ELSE 2 * Pow2(k - 1)

\* the least integer k >= 0 with n <= capacity * 2^k
LeastShardBits(n, capacity) ==
  CHOOSE k \in 0 .. MaxShardBits :
    /\ n <= capacity * Pow2(k)
    /\ \A j \in 0 .. (k - 1) : n > capacity * Pow2(j)

\* C8: for positive integers n and capacity, mask_bits(n, capacity) is
\* max(0, ceil(log2(n / capacity))): the least k >= 0 with
\* n <= capacity * 2^k; mask_bits(512, 1287) = 0 and mask_bits(3000, 1287) = 2.
C8_MaskBitsIsCeilLog2 ==
  (bits_a.tag = "ok" /\ num_items_a >= 1 /\ arg_max_items >= 1)
  => /\ bits_a.val = U32(LeastShardBits(num_items_a, arg_max_items))
     /\ (num_items_a = 512 /\ arg_max_items = 1287) => bits_a.val = U32(0)
     /\ (num_items_a = 3000 /\ arg_max_items = 1287) => bits_a.val = U32(2)

C8_Witness ==
  /\ bits_a = Ok(U32(2))
  /\ num_items_a = 3000 /\ arg_max_items = 1287

\* C9: for a fixed capacity, n1 <= n2 implies
\* mask_bits(n1, capacity) <= mask_bits(n2, capacity); the result is never
\* negative, also for n below the capacity.
C9_MaskBitsMonotone ==
  /\ (bits_a.tag = "ok" /\ bits_b.tag = "ok" /\ num_items_a <= num_items_b)
       => ~ U32Lt(bits_b.val, bits_a.val)
  /\ bits_a.tag = "ok" => ~ U32Lt(bits_a.val, U32(0))

C9_Witness ==
  /\ bits_a = Ok(U32(0))
  /\ bits_b.tag = "ok" /\ U32Lt(U32(1), bits_b.val)
  /\ num_items_a < arg_max_items /\ num_items_b > 2 * arg_max_items

-----------------------------------------------------------------------------
(* impl Default for CrdsFilter                                             *)

\* let max_items = 1287f64
MAX_ITEMS == 1287
\* let max_bits = 7424u32
MAX_BITS == 7424
\* let num_items: usize = 512
NUM_ITEMS == 512

\* Bloom::random(num_items, FALSE_RATE, max_bits) of the solana_bloom crate:
\* an empty filter of at most max_bits bits under freshly drawn keys
Bloom_random(num_items, max_bits, keys) ==
  [keys |-> keys, bits_set |-> {}, num_bits_set |-> 0, max_bits |-> max_bits]

\* default() had it been written for 3000 items instead of 512
CrdsFilter_default_3000(oc, keys) ==
  LET bits == mask_bits(F64Int(3000), F64Int(MAX_ITEMS))
      bloom == Bloom_random(MAX_ITEMS, MAX_BITS, keys)
      mask == compute_mask(oc, U64(0), bits)
  IN  IF mask.tag = "panic" THEN Panic
      ELSE Ok([filter |-> bloom, mask |-> mask.val, mask_bits |-> bits])

CrdsFilter_default(oc, keys) ==
  LET bits == mask_bits(F64Int(NUM_ITEMS), F64Int(MAX_ITEMS))
      bloom == Bloom_random(MAX_ITEMS, MAX_BITS, keys)
      mask == compute_mask(oc, U64(0), bits)
  IN  IF mask.tag = "panic" THEN Panic
      ELSE Ok([filter |-> bloom, mask |-> mask.val, mask_bits |-> bits])

\* the keys the random source may hand to one filter
BloomKeyArgs ==
  UNION {[1 .. n -> 0 .. MaxBloomKey] : n \in 1 .. MaxBloomKeys}

InitDefault ==
  /\ overflow_checks \in BOOLEAN
  /\ bloom_keys \in BloomKeyArgs
  /\ crds_filter = Pending
  /\ arg_mask_bits = Unused /\ seed_a = Unused /\ seed_b = Unused
  /\ mask_a = Unused /\ mask_b = Unused
  /\ num_items_a = Unused /\ num_items_b = Unused /\ arg_max_items = Unused
  /\ bits_a = Unused /\ bits_b = Unused
  /\ keypair = Unused /\ crds_data = Unused /\ crds_value = Unused
  /\ ping_a = Unused /\ ping_b = Unused /\ pong_a = Unused /\ pong_b = Unused

CallDefault ==
  /\ crds_filter = Pending
  /\ crds_filter' = CrdsFilter_default(overflow_checks, bloom_keys)
  /\ UNCHANGED << overflow_checks, mask_vars, bits_vars, bloom_keys, keypair,
                  signed_vars, pong_vars >>

NextDefault == CallDefault

SpecDefault == InitDefault /\ [][NextDefault]_vars

\* C3: every call of CrdsFilter::default() returns a filter with
\* mask_bits = 0 and mask = 2^64 - 1, whatever keys the membership filter
\* drew, and never trips the seed assertion.
C3_DefaultFilter ==
  Returned(crds_filter)
  => /\ crds_filter.tag = "ok"
     /\ crds_filter.val.mask_bits = U32(0)
     /\ crds_filter.val.mask = 0 .. 63

C3_Witness ==
  /\ crds_filter.tag = "ok"
  /\ crds_filter.val.filter.keys = bloom_keys
  /\ Len(bloom_keys) > 1 /\ bloom_keys[1] # bloom_keys[2]

-----------------------------------------------------------------------------
(* The primitives of solana_sdk, as ideal ones.  A keypair is its number;  *)
(* its public key is 32 bytes no other keypair has.  A signature names the *)
(* public key and the exact bytes signed and verifies for nothing else; a  *)
(* hash names the exact bytes hashed.                                      *)

Keypairs == 1 .. MaxKeypairs

PUBKEY_BYTES == 32

Keypair_pubkey(k) == [i \in 1 .. PUBKEY_BYTES |-> k]

\* Pubkey::default()
Pubkey_default == [i \in 1 .. PUBKEY_BYTES |-> 0]

Keypair_sign_message(k, message) ==
  [signer |-> Keypair_pubkey(k), message |-> message]

\* Signature::default(): verifies for nothing
Signature_default == [signer |-> Pubkey_default, message |-> << >>]

Signature_verify(signature, pubkey, message) ==
  signature.signer = pubkey /\ signature.message = message

RECURSIVE Concat(_)
Concat(parts) ==
  IF parts = << >> THEN << >> ELSE Head(parts) \o Concat(Tail(parts))

\* hash::hashv(&[..]): the hash of the parts fed one after another
hashv(parts) == [sha256 |-> Concat(parts)]

\* Hash::as_ref(): the digest's bytes, which name what was hashed
Hash_as_ref(hash) == << hash >>

-----------------------------------------------------------------------------
(* bincode::serialize, default options: fixed-width little-endian          *)
(* integers, a u32 variant index before an enum's fields, a u64 length     *)
(* before the elements of a Vec or set, nothing before a fixed array       *)

RECURSIVE LeBytes(_, _)
LeBytes(n, width) ==
  IF width = 0 THEN << >> ELSE << n % 256 >> \o LeBytes(n \div 256, width - 1)

ser_u8(n) == LeBytes(n, 1)
ser_u16(n) == LeBytes(n, 2)
ser_u32(n) == LeBytes(n, 4)
ser_u64(n) == LeBytes(n, 8)

ser_seq(elems) == ser_u64(Len(elems)) \o Concat(elems)

\* Option<u32>
ser_option_u32(o) ==
  IF o.tag = "none" THEN ser_u8(0) ELSE ser_u8(1) \o ser_u32(o.val)

\* std::net::SocketAddr, V4: variant 0, the four address bytes, the port
ser_socketaddr(a) == ser_u32(0) \o a.ip \o ser_u16(a.port)

\* (Slot, Hash)
ser_slot_hash(p) == ser_u64(p[1]) \o p[2]

ser_hashes(hashes) == ser_seq([i \in DOMAIN hashes |-> ser_slot_hash(hashes[i])])

\* Vec<u8>
ser_bytes(bytes) == ser_seq([i \in DOMAIN bytes |-> ser_u8(bytes[i])])

\* DeprecatedEpochIncompleteSlots: first, the compression's index, the list
ser_stash(e) ==
  ser_u64(e.first)
    \o ser_u32(CASE e.compression = "Uncompressed" -> 0
                  [] e.compression = "GZip" -> 1
                  [] e.compression = "BZip2" -> 2)
    \o ser_bytes(e.compressed_list)

\* CompressedSlots::Flate2
ser_compressed_slots(c) ==
  ser_u32(0) \o ser_u64(c.first_slot) \o ser_u64(c.num) \o ser_bytes(c.compressed)

ser_LegacyContactInfo(c) ==
  c.id \o ser_socketaddr(c.gossip) \o ser_socketaddr(c.tvu)
    \o ser_socketaddr(c.tvu_forwards) \o ser_socketaddr(c.repair)
    \o ser_socketaddr(c.tpu) \o ser_socketaddr(c.tpu_forwards)
    \o ser_socketaddr(c.tpu_vote) \o ser_socketaddr(c.rpc)
    \o ser_socketaddr(c.rpc_pubsub) \o ser_socketaddr(c.serve_repair)
    \o ser_u64(c.wallclock) \o ser_u16(c.shred_version)

ser_SnapshotHashes(s) == s.from \o ser_hashes(s.hashes) \o ser_u64(s.wallclock)

ser_LowestSlot(l) ==
  l.from \o ser_u64(l.root) \o ser_u64(l.lowest)
    \o ser_seq([i \in DOMAIN l.slots |-> ser_u64(l.slots[i])])
    \o ser_seq([i \in DOMAIN l.stash |-> ser_stash(l.stash[i])])
    \o ser_u64(l.wallclock)

ser_EpochSlots(e) ==
  e.from
    \o ser_seq([i \in DOMAIN e.slots |-> ser_compressed_slots(e.slots[i])])
    \o ser_u64(e.wallclock)

ser_LegacyVersion(v) ==
  v.from \o ser_u64(v.wallclock) \o ser_u16(v.version.major)
    \o ser_u16(v.version.minor) \o ser_u16(v.version.patch)
    \o ser_option_u32(v.version.commit)

ser_Version(v) ==
  v.from \o ser_u64(v.wallclock) \o ser_u16(v.version.major)
    \o ser_u16(v.version.minor) \o ser_u16(v.version.patch)
    \o ser_option_u32(v.version.commit) \o ser_u32(v.version.feature_set)

ser_NodeInstance(n) ==
  n.from \o ser_u64(n.wallclock) \o ser_u64(n.timestamp) \o ser_u64(n.token)

ser_IncrementalSnapshotHashes(s) ==
  s.from \o ser_slot_hash(s.base) \o ser_hashes(s.hashes) \o ser_u64(s.wallclock)

\* serialize(&CrdsData): the variant's index, then its fields in order
serialize_CrdsData(d) ==
  CASE d.variant = "LegacyContactInfo" -> ser_u32(0) \o ser_LegacyContactInfo(d.f0)
    [] d.variant = "LowestSlot" -> ser_u32(2) \o ser_u8(d.f0) \o ser_LowestSlot(d.f1)
    [] d.variant = "SnapshotHashes" -> ser_u32(3) \o ser_SnapshotHashes(d.f0)
    [] d.variant = "AccountsHashes" -> ser_u32(4) \o ser_SnapshotHashes(d.f0)
    [] d.variant = "EpochSlots" -> ser_u32(5) \o ser_u8(d.f0) \o ser_EpochSlots(d.f1)
    [] d.variant = "LegacyVersion" -> ser_u32(6) \o ser_LegacyVersion(d.f0)
    [] d.variant = "Version" -> ser_u32(7) \o ser_Version(d.f0)
    [] d.variant = "NodeInstance" -> ser_u32(8) \o ser_NodeInstance(d.f0)
    [] d.variant = "DuplicateShred" -> ser_u32(9)
    [] d.variant = "IncrementalSnapshotHashes"
         -> ser_u32(10) \o ser_IncrementalSnapshotHashes(d.f0)
    [] d.variant = "ContactInfo" -> ser_u32(11)

\* serialize(&ping.token) for the token types tried: [u8; 32] is its bytes;
\* a type whose Serialize impl reports an error gives Err
serialize_token(token) ==
  IF token.type = "bytes" THEN Ok(token.bytes) ELSE Err

-----------------------------------------------------------------------------
(* CrdsValue::new_signed                                                   *)

\* new_signed had it signed the data's variant index only
CrdsValue_new_signed_index(data, k) ==
  LET signable_data == SubSeq(serialize_CrdsData(data), 1, 4)
      signature == Keypair_sign_message(k, signable_data)
  IN  Ok([signature |-> signature, data |-> data])

CrdsValue_new_signed(data, k) ==
  LET signable_data == serialize_CrdsData(data)
      signature == Keypair_sign_message(k, signable_data)
  IN  Ok([signature |-> signature, data |-> data])

-----------------------------------------------------------------------------
(* Pong::new                                                               *)

\* "SOLANA_PING_PONG".as_bytes()
PING_PONG_HASH_PREFIX ==
  << 83, 79, 76, 65, 78, 65, 95, 80, 73, 78, 71, 95, 80, 79, 78, 71 >>

\* Pong::new had it hashed the ping's sender instead of its token
Pong_new_hash_from(ping, k) ==
  LET token == serialize_token(ping.token)
  IN  IF token.tag = "err" THEN Err
      ELSE LET hash == hashv(<< PING_PONG_HASH_PREFIX, ping.from >>)
           IN  Ok([from |-> Keypair_pubkey(k), hash |-> hash,
                   signature |-> Keypair_sign_message(k, Hash_as_ref(hash))])

\* Pong::new had it signed the raw token instead of the hash
Pong_new_sign_token(ping, k) ==
  LET token == serialize_token(ping.token)
  IN  IF token.tag = "err" THEN Err
      ELSE LET hash == hashv(<< PING_PONG_HASH_PREFIX, token.val >>)
           IN  Ok([from |-> Keypair_pubkey(k), hash |-> hash,
                   signature |-> Keypair_sign_message(k, token.val)])

Pong_new(ping, k) ==
  LET token == serialize_token(ping.token)
  IN  IF token.tag = "err" THEN Err
      ELSE LET hash == hashv(<< PING_PONG_HASH_PREFIX, token.val >>)
           IN  Ok([from |-> Keypair_pubkey(k), hash |-> hash,
                   signature |-> Keypair_sign_message(k, Hash_as_ref(hash))])

-----------------------------------------------------------------------------
(* The CrdsValue::new_signed calls                                         *)

\* the identities records come from
Origins == {Keypair_pubkey(k) : k \in Keypairs} \cup {Pubkey_default}

Wallclocks == (0 .. MaxWallclock) \cup {1700000000}

HashArgs == {[i \in 1 .. 32 |-> b] : b \in 0 .. 1}

\* socketaddr_default!()
SocketAddr_default == [ip |-> << 0, 0, 0, 0 >>, port |-> 0]

LegacyContactInfo_default ==
  [id |-> Pubkey_default,
   gossip |-> SocketAddr_default, tvu |-> SocketAddr_default,
   tvu_forwards |-> SocketAddr_default, repair |-> SocketAddr_default,
   tpu |-> SocketAddr_default, tpu_forwards |-> SocketAddr_default,
   tpu_vote |-> SocketAddr_default, rpc |-> SocketAddr_default,
   rpc_pubsub |-> SocketAddr_default, serve_repair |-> SocketAddr_default,
   wallclock |-> 0, shred_version |-> 0]

SlotHashesArgs ==
  {<< >>} \cup {<< << 1, h >> >> : h \in HashArgs}
    \cup {<< << 1, h >>, << 300, h >> >> : h \in HashArgs}

VersionArgs ==
  {[major |-> 1, minor |-> 14, patch |-> p, commit |-> c] :
     p \in 0 .. 1, c \in {None, Some(5)}}

\* the CrdsData values tried.  Vote carries a Transaction of solana_sdk and
\* is left out; EpochSlots carries Flate2 slots only.
CrdsDataArgs ==
  {[variant |-> "LegacyContactInfo",
    f0 |-> [LegacyContactInfo_default EXCEPT
              !.id = o, !.wallclock = w, !.gossip = [@ EXCEPT !.port = p]]] :
     o \in Origins, w \in Wallclocks, p \in {0, 8001}}
  \cup
  {[variant |-> "LowestSlot", f0 |-> 0,
    f1 |-> [from |-> o, root |-> 0, lowest |-> l, slots |-> s, stash |-> st,
            wallclock |-> w]] :
     o \in Origins, w \in Wallclocks, l \in 0 .. 1, s \in {<< >>, << 1, 2 >>},
     st \in {<< >>, << [first |-> 0, compression |-> "GZip",
                        compressed_list |-> << 1 >>] >>}}
  \cup
  {[variant |-> v, f0 |-> [from |-> o, hashes |-> h, wallclock |-> w]] :
     v \in {"SnapshotHashes", "AccountsHashes"},
     o \in Origins, h \in SlotHashesArgs, w \in Wallclocks}
  \cup
  {[variant |-> "EpochSlots", f0 |-> i,
    f1 |-> [from |-> o, slots |-> s, wallclock |-> w]] :
     i \in 0 .. 1, o \in Origins, w \in Wallclocks,
     s \in {<< >>, << [first_slot |-> 5, num |-> 2, compressed |-> << 120, 156 >>] >>}}
  \cup
  {[variant |-> "LegacyVersion",
    f0 |-> [from |-> o, wallclock |-> w, version |-> v]] :
     o \in Origins, w \in Wallclocks, v \in VersionArgs}
  \cup
  {[variant |-> "Version",
    f0 |-> [from |-> o, wallclock |-> w,
            version |-> [major |-> v.major, minor |-> v.minor, patch |-> v.patch,
                         commit |-> v.commit, feature_set |-> f]]] :
     o \in Origins, w \in Wallclocks, v \in VersionArgs, f \in {0, 77}}
  \cup
  {[variant |-> "NodeInstance",
    f0 |-> [from |-> o, wallclock |-> w, timestamp |-> t, token |-> t + 1]] :
     o \in Origins, w \in Wallclocks, t \in {0, 1700000000}}
  \cup
  {[variant |-> "IncrementalSnapshotHashes",
    f0 |-> [from |-> o, base |-> << 1, b >>, hashes |-> h, wallclock |-> w]] :
     o \in Origins, b \in HashArgs, h \in SlotHashesArgs, w \in Wallclocks}
  \cup
  {[variant |-> "DuplicateShred"], [variant |-> "ContactInfo"]}

InitSigned ==
  /\ keypair \in Keypairs
  /\ crds_data \in CrdsDataArgs
  /\ crds_value = Pending
  /\ overflow_checks = Unused
  /\ arg_mask_bits = Unused /\ seed_a = Unused /\ seed_b = Unused
  /\ mask_a = Unused /\ mask_b = Unused
  /\ num_items_a = Unused /\ num_items_b = Unused /\ arg_max_items = Unused
  /\ bits_a = Unused /\ bits_b = Unused
  /\ bloom_keys = Unused /\ crds_filter = Unused
  /\ ping_a = Unused /\ ping_b = Unused /\ pong_a = Unused /\ pong_b = Unused

CallNewSigned ==
  /\ crds_value = Pending
  /\ crds_value' = CrdsValue_new_signed(crds_data, keypair)
  /\ UNCHANGED << overflow_checks, mask_vars, bits_vars, default_vars,
                  keypair, crds_data, pong_vars >>

NextSigned == CallNewSigned

SpecSigned == InitSigned /\ [][NextSigned]_vars

\* C5: new_signed(d, K) returns a value whose data is d unchanged and whose
\* signature is K's over exactly serialize(d): it verifies against
\* serialize(value.data) with K's public key, and with no other keypair's.
C5_SignatureSoundness ==
  Returned(crds_value)
  => /\ crds_value.tag = "ok"
     /\ crds_value.val.data = crds_data
     /\ crds_value.val.signature.signer = Keypair_pubkey(keypair)
     /\ crds_value.val.signature.message = serialize_CrdsData(crds_data)
     /\ \A k \in Keypairs :
          Signature_verify(crds_value.val.signature, Keypair_pubkey(k),
                           serialize_CrdsData(crds_value.val.data))
            <=> k = keypair

C5_Witness ==
  /\ crds_value.tag = "ok"
  /\ crds_data = [variant |-> "LegacyContactInfo", f0 |-> LegacyContactInfo_default]
  /\ Len(crds_value.val.signature.message) = 146

-----------------------------------------------------------------------------
(* The Pong::new calls                                                     *)

\* const GOSSIP_PING_TOKEN_SIZE: usize = 32
GOSSIP_PING_TOKEN_SIZE == 32

\* tokens: [u8; 32] with one byte varying at either end, and a token of a
\* type that does not serialize
TokenArgs ==
  {[type |-> "bytes",
    bytes |-> [i \in 1 .. GOSSIP_PING_TOKEN_SIZE |-> IF i = p THEN b ELSE 0]] :
     p \in {1, GOSSIP_PING_TOKEN_SIZE}, b \in 0 .. MaxTokenByte}
  \cup {[type |-> "unserializable"]}

\* pings as they arrive: any sender, any token, signed or not
PingArgs ==
  {[from |-> Keypair_pubkey(k), token |-> t, signature |-> Signature_default] :
     k \in Keypairs, t \in TokenArgs}
  \cup
  {[from |-> Keypair_pubkey(k), token |-> t,
    signature |-> Keypair_sign_message(k, t.bytes)] :
     k \in Keypairs, t \in {x \in TokenArgs : x.type = "bytes"}}

InitPong ==
  /\ keypair \in Keypairs
  /\ ping_a \in PingArgs
  /\ ping_b \in PingArgs
  /\ pong_a = Pending /\ pong_b = Pending
  /\ overflow_checks = Unused
  /\ arg_mask_bits = Unused /\ seed_a = Unused /\ seed_b = Unused
  /\ mask_a = Unused /\ mask_b = Unused
  /\ num_items_a = Unused /\ num_items_b = Unused /\ arg_max_items = Unused
  /\ bits_a = Unused /\ bits_b = Unused
  /\ bloom_keys = Unused /\ crds_filter = Unused
  /\ crds_data = Unused /\ crds_value = Unused

CallPongNewA ==
  /\ pong_a = Pending
  /\ pong_a' = Pong_new(ping_a, keypair)
  /\ UNCHANGED << overflow_checks, mask_vars, bits_vars, default_vars,
                  keypair, signed_vars, ping_a, ping_b, pong_b >>

CallPongNewB ==
  /\ pong_b = Pending
  /\ pong_b' = Pong_new(ping_b, keypair)
  /\ UNCHANGED << overflow_checks, mask_vars, bits_vars, default_vars,
                  keypair, signed_vars, ping_a, ping_b, pong_a >>

NextPong == CallPongNewA \/ CallPongNewB

SpecPong == InitPong /\ [][NextPong]_vars

\* the hash the prober expects for the ping it sent: H(prefix || token)
ExpectedHash(ping) ==
  [sha256 |-> << 83, 79, 76, 65, 78, 65, 95, 80, 73, 78, 71, 95, 80, 79, 78, 71 >>
                \o ping.token.bytes]

\* C4: for one keypair and two pings whose tokens differ, the two pongs'
\* hashes differ, and the pong built for one ping does not carry the hash
\* expected for the other, also when both pings come from the same peer.
C4_PongBinding ==
  (pong_a.tag = "ok" /\ pong_b.tag = "ok" /\ ping_a.token # ping_b.token)
  => /\ pong_a.val.hash # pong_b.val.hash
     /\ pong_a.val.hash # ExpectedHash(ping_b)
     /\ pong_b.val.hash # ExpectedHash(ping_a)

C4_Witness ==
  /\ pong_a.tag = "ok" /\ pong_b.tag = "ok"
  /\ ping_a.token # ping_b.token
  /\ ping_a.from = ping_b.from

\* C6: whenever the token serializes, Pong::new(ping, keypair) returns a pong
\* whose from is the keypair's public key, whose hash is
\* H("SOLANA_PING_PONG" || serialize(token)) and whose signature is the
\* keypair's over that hash, not over the raw token, whatever the ping's own
\* from and signature are.
C6_PongFields ==
  (Returned(pong_a) /\ ping_a.token.type = "bytes")
  => /\ pong_a.tag = "ok"
     /\ pong_a.val.from = Keypair_pubkey(keypair)
     /\ pong_a.val.hash = ExpectedHash(ping_a)
     /\ Signature_verify(pong_a.val.signature, Keypair_pubkey(keypair),
                         << pong_a.val.hash >>)
     /\ ~ Signature_verify(pong_a.val.signature, Keypair_pubkey(keypair),
                           ping_a.token.bytes)

C6_Witness ==
  /\ pong_a.tag = "ok"
  /\ ping_a.from # Keypair_pubkey(keypair)
  /\ ping_a.signature = Signature_default

-----------------------------------------------------------------------------
(* Every call of the module                                                *)

Init == InitMask \/ InitMaskBits \/ InitDefault \/ InitSigned \/ InitPong

Next == NextMask \/ NextMaskBits \/ NextDefault \/ NextSigned \/ NextPong

Spec == Init /\ [][Next]_vars

====
